---- MODULE Spec2Model ----
(***************************************************************************)
(* Model of src/google_search_events.py: GoogleSearchScraper, a resumable  *)
(* scraper that pages through the Google Custom Search API with a pool of  *)
(* API keys and appends result rows to a CSV file.                         *)
(*                                                                         *)
(* Abstractions.  Event slugs are plain text that pandas reads back from   *)
(* CSV unchanged.  The title of an event is <<"title", slug>>.  An item of *)
(* an upstream response is <<page, i>>: the i-th item of the response for  *)
(* that page, so that order and origin of items are visible.  The metadata *)
(* of a response carries the page it answers.                              *)
(* The wall clock ticks once per process run, so                           *)
(* the timestamp column of a row is the number of the run that wrote it.   *)
(* An upstream answer is a status code (0 stands for a transport level     *)
(* exception: no response at all), and for status 200 whether the body     *)
(* decodes and how many items it carries.                                  *)
(***************************************************************************)
EXTENDS Integers, Sequences, FiniteSets, TLC

\* ---------------------------------------------------------------- bounds
MaxKeys == 2          \* largest API key pool when one search is explored
RunKeys == 1          \* largest API key pool when whole runs are explored
MaxRuns == 2          \* process runs on the same output location
MaxMeta == 2          \* rows of the metadata CSV
MaxList == 3          \* rows of the metadata CSV when the worklist is explored
MaxCut == 1           \* rows appended before a failing append stops

Slugs == {"a", "b"}
ListSlugs == {"a", "b", "c"}
ItemCounts == {0, 4, 10}            \* items in a decodable 200 response
\* --max_results when whole runs are explored, and when one search is
RunMaxResults == {5, 10}
SearchMaxResults == {5, 10, 20, 30}
Statuses == {0, 200, 403, 429, 500} \* 0: the request raised, no response

\* ------------------------------------------------------ program constants
PageSize == 10

GOOGLE_SEARCH_COLUMNS ==
    <<"slug", "searchTerms", "totalResults", "linkTitle", "link",
      "snippet", "rank", "timestamp">>

EmptyField == <<>>                  \* the '' written for a missing field

\* ------------------------------------------------------------- helpers
\* params['start'] of the request for a page
StartOffset(p) == p * PageSize + 1

\* num_pages = max_results // 10
NumPages_roundup(mr) == (mr + PageSize - 1) \div PageSize
NumPages(mr) == mr \div PageSize

\* rotate_api_key: the next index, wrapping
RotateIndex_nowrap(i, n) == IF i + 1 < n THEN i + 1 ELSE i
RotateIndex(i, n) == (i + 1) % n

\* for _ in range(len(self.api_keys)): attempts allowed for one page
PageAttempts_plus_one(keys) == Len(keys) + 1
PageAttempts(keys) == Len(keys)

\* response.status_code in [429, 403]
IsQuota_any_failure(status) == status # 200
IsQuota(status) == status \in {429, 403}

\* if not self.api_keys: raise ValueError
PoolAccepted_any(keys) == TRUE
PoolAccepted(keys) == keys # <<>>

\* self.key_usage[self.get_current_api_key()] += 1
RecordUse_first(usage, i) == [usage EXCEPT ![1] = @ + 1]
RecordUse(usage, i) == [usage EXCEPT ![i + 1] = @ + 1]

\* if page == 0
IsFirstPage_any(p) == TRUE
IsFirstPage(p) == p = 0

\* load_processed_slugs seeds the output when not os.path.exists
CreatesOutput_always(exists) == TRUE
CreatesOutput(exists) == ~exists

\* except Exception in google_search: what it catches of what a request
\* can raise (a transport exception, an HTTPError from raise_for_status, a
\* decoding error)
SearchCatches_transport(exc) == exc = "transport"
SearchCatches(exc) == exc \in {"transport", "http", "decode"}

\* except Exception in search_event: KeyboardInterrupt is not an Exception
SearchEventCatches_all(exc) == TRUE
SearchEventCatches(exc) == exc # "KeyboardInterrupt"

\* len(items) < 10
IsShortPage_never(n) == FALSE
IsShortPage(n) == n < PageSize

\* the items of the response for page p that carries n items
ItemsOf(p, n) == [i \in 1..n |-> <<p, i>>]

\* all_items.extend(items)
ExtendItems_front(all, items) == items \o all
ExtendItems(all, items) == all \o items

\* drop_duplicates(subset=['event_slug'], keep='last')
RECURSIVE DropDuplicatesLast(_)
DropDuplicatesLast(df) ==
    IF df = <<>> THEN <<>>
    ELSE IF \E j \in 2..Len(df) : df[j].event_slug = df[1].event_slug
         THEN DropDuplicatesLast(Tail(df))
         ELSE <<df[1]>> \o DropDuplicatesLast(Tail(df))

NotNaId(r) == r.event_id
IsOpen(r) == r.closed = FALSE

\* load_mkts_status: the (slug, title) pairs of the open markets
LoadMkts(df) ==
    LET kept == SelectSeq(SelectSeq(DropDuplicatesLast(df), NotNaId), IsOpen)
    IN  [i \in 1..Len(kept) |-> <<kept[i].event_slug, kept[i].title>>]

\* load_processed_slugs: set(df['slug'].values)
ProcessedSlugs_with_items(rows) ==
    {rows[i].slug : i \in {j \in 1..Len(rows) : rows[j].item # EmptyField}}
ProcessedSlugs_none(rows) == {}
ProcessedSlugs_first(rows) == IF rows = <<>> THEN {} ELSE {rows[1].slug}
ProcessedSlugs(rows) == {rows[i].slug : i \in 1..Len(rows)}

\* run: [(slug, title) for slug, title in target_mkts if slug not in processed]
EventsToSearch_all(mkts, processed) == mkts
EventsToSearch_reversed(mkts, processed) ==
    LET Fresh(m) == m[1] \notin processed
        kept == SelectSeq(mkts, Fresh)
    IN  [i \in 1..Len(kept) |-> kept[Len(kept) + 1 - i]]
EventsToSearch(mkts, processed) ==
    LET Fresh(m) == m[1] \notin processed
    IN  SelectSeq(mkts, Fresh)

\* search_event: the rows written for one candidate
Rank(idx) == <<idx>>

RowsFor_noempty(slug, res, ts) ==
    [i \in 1..Len(res.items) |->
        [slug |-> slug, searchTerms |-> res.searchTerms,
         totalResults |-> res.totalResults, item |-> res.items[i],
         rank |-> Rank(i), timestamp |-> ts]]
RowsFor(slug, res, ts) ==
    IF res.items = <<>>
    THEN << [slug |-> slug, searchTerms |-> res.searchTerms,
             totalResults |-> res.totalResults, item |-> EmptyField,
             rank |-> EmptyField, timestamp |-> ts] >>
    ELSE [i \in 1..Len(res.items) |->
             [slug |-> slug, searchTerms |-> res.searchTerms,
              totalResults |-> res.totalResults, item |-> res.items[i],
              rank |-> Rank(i), timestamp |-> ts]]

\* run: success_count / error_count after search_event returned ok
Tally_lost(ok, s, e) == IF ok THEN <<s + 1, e>> ELSE <<s, e>>
Tally(ok, s, e) == IF ok THEN <<s + 1, e>> ELSE <<s, e + 1>>

\* the metadata CSV: rows of (event_slug, title, event_id present, closed)
MetaRow(c) == [event_slug |-> c[1], title |-> <<"title", c[1]>>,
               event_id |-> c[2], closed |-> c[3]]

MetaTables ==
    UNION { { [i \in 1..k |-> MetaRow(f[i])] :
                f \in [1..k -> Slugs \X BOOLEAN \X BOOLEAN] } : k \in 0..MaxMeta }


\* --------------------------------------------------------------- state
VARIABLES
    api_keys,           \* args.api_keys, fixed for the life of the model
    max_results,        \* args.max_results
    output_exists,      \* os.path.exists(self.output_path)
    output_header,      \* the header line of the output CSV
    output_rows,        \* the data lines of the output CSV, in file order
    run,                \* number of the process run (the clock)
    pc,                 \* where the process is
    current_key_index,  \* self.current_key_index
    key_usage,          \* self.key_usage
    target_mkts,        \* self.target_mkts
    processed_slugs,    \* self.processed_slugs
    events_to_search,   \* run: events_to_search
    idx,                \* run: position of the for loop in events_to_search
    success_count,      \* run: success_count
    error_count,        \* run: error_count
    page,               \* google_search: page
    attempt,            \* google_search: iterations of the inner loop used
    params,             \* google_search: params (key and start)
    all_items,          \* google_search: all_items
    search_terms,       \* google_search: search_terms
    total_results,      \* google_search: total_results
    result,             \* search_event: response
    \* history, not read by the program
    interrupted,        \* a KeyboardInterrupt was delivered in this run
    raised,             \* where the last exception of this run came from
    verdicts,           \* what search_event returned, per finished candidate
    writers,            \* per slug: search_event calls that wrote rows for it
    req_starts,         \* start offsets requested in the current search
    page_start_index,   \* current_key_index when the current page began
    quota_run,          \* consecutive quota responses on the current page
    n_transport,        \* transport errors on the current page
    abandoned,          \* pages whose every attempt was a transport error
    short_page,         \* page of this search answered with < 10 items
    accepted,           \* <<page, n>> of the responses whose items were kept
    n_requests,         \* requests issued in the current search
    n_served,           \* responses of this process that were no quota or
                        \* error response
    prev_completed,     \* the previous run ran its loop to the end
    prev_clean,         \* ... and no candidate failed in it
    prev_target         \* target_mkts of the previous run

config == <<api_keys, max_results>>
disk == <<output_exists, output_header, output_rows>>
object == <<current_key_index, key_usage, target_mkts, processed_slugs>>
loopvars == <<events_to_search, idx, success_count, error_count>>
searchvars == <<page, attempt, params, all_items, search_terms, total_results>>
searchhist == <<req_starts, page_start_index, quota_run, n_transport,
                abandoned, short_page, accepted, n_requests>>
runhist == <<interrupted, raised, verdicts>>
prevhist == <<prev_completed, prev_clean, prev_target>>

vars == <<config, disk, run, pc, object, loopvars, searchvars, result,
          searchhist, runhist, writers, prevhist, n_served>>

Keys(n) == [i \in 1..n |-> <<"key", i>>]

NoPage == -1
NoTitle == <<"title", "">>
NoKey == <<"key", 0>>
QueryTerms(query) == [src |-> "query", page |-> NoPage, text |-> query]
EchoedTerms(query, p) == [src |-> "response", page |-> p, text |-> query]
DefaultTotal == [src |-> "default", page |-> NoPage]
ReportedTotal(p) == [src |-> "response", page |-> p]
NoResult == [searchTerms |-> QueryTerms(NoTitle), totalResults |-> DefaultTotal,
             items |-> <<>>]

\* the locals of google_search and of search_event are gone once they return
SearchIdle ==
    /\ page' = 0
    /\ attempt' = 0
    /\ params' = [key |-> NoKey, start |-> 0]
    /\ all_items' = <<>>
    /\ search_terms' = QueryTerms(NoTitle)
    /\ total_results' = DefaultTotal

SearchHistIdle ==
    /\ req_starts' = {}
    /\ quota_run' = 0
    /\ n_transport' = 0
    /\ abandoned' = {}
    /\ short_page' = NoPage
    /\ accepted' = <<>>
    /\ n_requests' = 0

\* a process that has not run __init__ yet
ProcessFresh ==
    /\ current_key_index' = 0
    /\ key_usage' = <<>>
    /\ target_mkts' = <<>>
    /\ processed_slugs' = {}
    /\ events_to_search' = <<>>
    /\ idx' = 1
    /\ success_count' = 0
    /\ error_count' = 0
    /\ SearchIdle
    /\ result' = NoResult
    /\ SearchHistIdle
    /\ page_start_index' = 0
    /\ interrupted' = FALSE
    /\ raised' = "none"
    /\ verdicts' = <<>>
    /\ n_served' = 0

InitWith(pool, choices) ==
    /\ api_keys \in {Keys(n) : n \in 0..pool}
    /\ max_results \in choices
    /\ output_exists = FALSE
    /\ output_header = <<>>
    /\ output_rows = <<>>
    /\ run = 1
    /\ pc = "new"
    /\ current_key_index = 0
    /\ key_usage = <<>>
    /\ target_mkts = <<>>
    /\ processed_slugs = {}
    /\ events_to_search = <<>>
    /\ idx = 1
    /\ success_count = 0
    /\ error_count = 0
    /\ page = 0
    /\ attempt = 0
    /\ params = [key |-> NoKey, start |-> 0]
    /\ all_items = <<>>
    /\ search_terms = QueryTerms(NoTitle)
    /\ total_results = DefaultTotal
    /\ result = NoResult
    /\ interrupted = FALSE
    /\ raised = "none"
    /\ verdicts = <<>>
    /\ writers = [s \in ListSlugs |-> 0]
    /\ req_starts = {}
    /\ page_start_index = 0
    /\ quota_run = 0
    /\ n_transport = 0
    /\ abandoned = {}
    /\ short_page = NoPage
    /\ accepted = <<>>
    /\ n_requests = 0
    /\ n_served = 0
    /\ prev_completed = FALSE
    /\ prev_clean = FALSE
    /\ prev_target = <<>>

\* get_current_api_key
CurrentKey(keys, i) == keys[i + 1]

\* ------------------------------------------------------------- actions

\* __init__: an empty key pool is a ValueError, the process ends
Construct ==
    /\ pc = "new"
    /\ IF ~PoolAccepted(api_keys)
       THEN /\ pc' = "config_error"
            /\ UNCHANGED <<current_key_index, key_usage>>
       ELSE /\ pc' = "ready"
            /\ current_key_index' = 0
            /\ key_usage' = [i \in 1..Len(api_keys) |-> 0]
    /\ target_mkts' = <<>>
    /\ processed_slugs' = {}
    /\ UNCHANGED <<config, disk, run, loopvars, searchvars, result,
                   searchhist, runhist, writers, prevhist, n_served>>

\* run, up to the loop: load_mkts_status, load_processed_slugs, the filter
\* and the early return on an empty worklist
Start(df) ==
    /\ pc = "ready"
    /\ target_mkts' = LoadMkts(df)
    /\ IF ~CreatesOutput(output_exists)
       THEN /\ processed_slugs' = ProcessedSlugs(output_rows)
            /\ UNCHANGED disk
       ELSE /\ processed_slugs' = {}
            /\ output_exists' = TRUE
            /\ output_header' = GOOGLE_SEARCH_COLUMNS
            /\ output_rows' = <<>>
    /\ events_to_search' = EventsToSearch(target_mkts', processed_slugs')
    /\ idx' = 1
    /\ success_count' = 0
    /\ error_count' = 0
    /\ pc' = IF Len(events_to_search') = 0 THEN "done" ELSE "loop"
    /\ UNCHANGED <<config, run, current_key_index, key_usage, searchvars,
                   result, searchhist, runhist, writers, prevhist, n_served>>


\* the candidate the loop of run is at
CurSlug == events_to_search[idx][1]
CurTitle == events_to_search[idx][2]

\* what google_search returns
Outcome(terms, total, items) ==
    [searchTerms |-> terms, totalResults |-> total, items |-> items]

\* search_event returned ok (True or False) after appending the rows
\* written; run tallies it and moves to the next candidate
CandidateReturns(ok, written) ==
    /\ output_rows' = output_rows \o written
    /\ writers' = IF written = <<>> THEN writers
                  ELSE [writers EXCEPT ![CurSlug] = @ + 1]
    /\ LET t == Tally(ok, success_count, error_count)
       IN  success_count' = t[1] /\ error_count' = t[2]
    /\ verdicts' = Append(verdicts, ok)
    /\ idx' = idx + 1
    /\ pc' = "loop"
    /\ SearchIdle
    /\ result' = NoResult
    /\ SearchHistIdle
    /\ page_start_index' = 0
    /\ UNCHANGED <<output_exists, output_header, events_to_search>>

\* exc is raised inside search_event after the rows written were appended:
\* search_event turns an Exception into False, anything else reaches run,
\* whose except KeyboardInterrupt breaks out of the loop
CandidateThrows(exc, written, origin) ==
    /\ raised' = origin
    /\ interrupted' = (interrupted \/ exc = "KeyboardInterrupt")
    /\ IF SearchEventCatches(exc)
       THEN CandidateReturns(FALSE, written)
       ELSE /\ output_rows' = output_rows \o written
            /\ writers' = IF written = <<>> THEN writers
                          ELSE [writers EXCEPT ![CurSlug] = @ + 1]
            /\ pc' = "done"
            /\ SearchIdle
            /\ result' = NoResult
            /\ SearchHistIdle
            /\ page_start_index' = 0
            /\ UNCHANGED <<output_exists, output_header, loopvars, verdicts>>

\* the for loop of run picks the next candidate: search_event calls
\* google_search, which sets up its locals and the params of page 0
BeginCandidate ==
    /\ pc = "loop"
    /\ idx <= Len(events_to_search)
    /\ all_items' = <<>>
    /\ search_terms' = QueryTerms(CurTitle)
    /\ total_results' = DefaultTotal
    /\ page' = 0
    /\ attempt' = 0
    /\ SearchHistIdle
    /\ page_start_index' = current_key_index
    /\ IF NumPages(max_results) = 0
       THEN /\ result' = Outcome(search_terms', total_results', all_items')
            /\ params' = [key |-> NoKey, start |-> 0]
            /\ pc' = "write"
       ELSE /\ result' = NoResult
            /\ params' = [key |-> CurrentKey(api_keys, current_key_index),
                          start |-> StartOffset(0)]
            /\ pc' = "request"
    /\ UNCHANGED <<config, disk, run, object, loopvars, runhist, writers,
                   prevhist, n_served>>

\* the exception a request ends with, if any
ExceptionOf(status, decodes) ==
    IF status = 0 THEN "transport"
    ELSE IF status # 200 THEN "http"
    ELSE IF ~decodes THEN "decode" ELSE "none"

\* one iteration of the inner loop: requests.get answers with status; a
\* 200 body decodes or not and carries n items
Request(status, decodes, n) ==
    /\ pc = "request"
    /\ IF IsQuota(status)
       THEN \* rotate, same page again if an iteration is left
            /\ current_key_index' = RotateIndex(current_key_index, Len(api_keys))
            /\ params' = [params EXCEPT
                            !.key = CurrentKey(api_keys, current_key_index')]
            /\ attempt' = attempt + 1
            /\ quota_run' = IF status \in {429, 403} THEN quota_run + 1 ELSE 0
            /\ n_transport' = IF status = 0 THEN n_transport + 1
                              ELSE n_transport
            /\ pc' = IF attempt' < PageAttempts(api_keys) THEN "request"
                     ELSE "page_end"
            /\ UNCHANGED <<key_usage, page, all_items, search_terms,
                           total_results, result, abandoned,
                           short_page, accepted, page_start_index>>
            /\ req_starts' = req_starts \cup {params.start}
            /\ n_requests' = n_requests + 1
            /\ UNCHANGED <<disk, loopvars, runhist, writers>>
       ELSE LET exc == ExceptionOf(status, decodes)
                used == IF exc \in {"none", "decode"}
                        THEN RecordUse(key_usage, current_key_index)
                        ELSE key_usage
            IN
            IF exc = "none"
            THEN \* success: count the use, keep metadata of page 0, extend
                 /\ key_usage' = used
                 /\ search_terms' = IF IsFirstPage(page)
                                    THEN EchoedTerms(search_terms.text, page)
                                    ELSE search_terms
                 /\ total_results' = IF IsFirstPage(page)
                                     THEN ReportedTotal(page)
                                     ELSE total_results
                 /\ all_items' = ExtendItems(all_items, ItemsOf(page, n))
                 /\ accepted' = Append(accepted, <<page, n>>)
                 /\ short_page' = IF n < PageSize THEN page ELSE short_page
                 /\ IF IsShortPage(n)
                    THEN /\ result' = Outcome(search_terms', total_results',
                                              all_items')
                         /\ pc' = "write"
                    ELSE /\ result' = result
                         /\ pc' = "page_end"
                 /\ UNCHANGED <<current_key_index, page, attempt, params,
                                quota_run, n_transport, abandoned,
                                page_start_index>>
                 /\ req_starts' = req_starts \cup {params.start}
                 /\ n_requests' = n_requests + 1
                 /\ UNCHANGED <<disk, loopvars, runhist, writers>>
            ELSE IF SearchCatches(exc)
            THEN \* logged, sleep, next iteration of the inner loop
                 /\ key_usage' = used
                 /\ attempt' = attempt + 1
                 /\ quota_run' = 0
                 /\ n_transport' = IF exc = "transport" THEN n_transport + 1
                                   ELSE n_transport
                 /\ abandoned' = IF /\ attempt' >= PageAttempts(api_keys)
                                    /\ n_transport' = Len(api_keys)
                                 THEN abandoned \cup {page} ELSE abandoned
                 /\ pc' = IF attempt' < PageAttempts(api_keys) THEN "request"
                          ELSE "page_end"
                 /\ UNCHANGED <<current_key_index, page, params, all_items,
                                search_terms, total_results, result,
                                short_page, accepted, page_start_index>>
                 /\ req_starts' = req_starts \cup {params.start}
                 /\ n_requests' = n_requests + 1
                 /\ UNCHANGED <<disk, loopvars, runhist, writers>>
            ELSE \* the exception leaves google_search
                 /\ key_usage' = used
                 /\ current_key_index' = current_key_index
                 /\ CandidateThrows(exc, <<>>, "search")
    /\ n_served' = IF status = 200 THEN n_served + 1 ELSE n_served
    /\ UNCHANGED <<config, run, target_mkts, processed_slugs, prevhist>>

\* the inner loop of a page is over (break, or no iteration left): sleep,
\* then the params of the next page, or the return after the last page
NextPage ==
    /\ pc = "page_end"
    /\ IF page + 1 < NumPages(max_results)
       THEN /\ page' = page + 1
            /\ params' = [key |-> CurrentKey(api_keys, current_key_index),
                          start |-> StartOffset(page + 1)]
            /\ attempt' = 0
            /\ page_start_index' = current_key_index
            /\ quota_run' = 0
            /\ n_transport' = 0
            /\ pc' = "request"
            /\ UNCHANGED <<result, all_items, search_terms, total_results>>
       ELSE /\ result' = Outcome(search_terms, total_results, all_items)
            /\ pc' = "write"
            /\ UNCHANGED <<searchvars, page_start_index, quota_run,
                           n_transport>>
    /\ UNCHANGED <<config, disk, run, object, loopvars, runhist, writers,
                   prevhist, req_starts, abandoned, short_page, accepted,
                   n_requests, n_served>>

\* search_event appends every row and returns True
WriteOk ==
    /\ pc = "write"
    /\ CandidateReturns(TRUE, RowsFor(CurSlug, result, run))
    /\ UNCHANGED <<config, run, object, interrupted, raised, prevhist,
                   n_served>>

\* search_event fails while persisting (open or a writerow raises) after j
\* rows; the with block closes the file, so those rows stay
WriteFail(j) ==
    /\ pc = "write"
    /\ j < Len(RowsFor(CurSlug, result, run))
    /\ CandidateThrows("IOError", SubSeq(RowsFor(CurSlug, result, run), 1, j),
                       "write")
    /\ UNCHANGED <<config, run, object, prevhist, n_served>>

\* Ctrl-C during a request, a sleep or the append (after j rows)
Interrupt(j) ==
    /\ \/ pc \in {"request", "page_end"} /\ j = 0
       \/ pc = "write" /\ j <= Len(RowsFor(CurSlug, result, run))
    /\ CandidateThrows("KeyboardInterrupt",
                       SubSeq(RowsFor(CurSlug, result, run), 1, j), "interrupt")
    /\ UNCHANGED <<config, run, object, prevhist, n_served>>

\* the loop is exhausted: the statistics are logged and run returns
Finish ==
    /\ pc = "loop"
    /\ idx > Len(events_to_search)
    /\ pc' = "done"
    /\ UNCHANGED <<config, disk, run, object, loopvars, searchvars, result,
                   searchhist, runhist, writers, prevhist, n_served>>

\* the process is killed (or the machine stops); during the append the
\* first j rows have reached the file
Kill(j) ==
    /\ \/ pc \in {"ready", "loop", "request", "page_end"} /\ j = 0
       \/ pc = "write" /\ j <= Len(RowsFor(CurSlug, result, run))
    /\ LET written == IF pc = "write"
                      THEN SubSeq(RowsFor(CurSlug, result, run), 1, j)
                      ELSE <<>>
       IN  /\ output_rows' = output_rows \o written
           /\ writers' = IF written = <<>> THEN writers
                         ELSE [writers EXCEPT ![CurSlug] = @ + 1]
    /\ pc' = "killed"
    /\ ProcessFresh
    /\ UNCHANGED <<config, output_exists, output_header, run, prevhist>>

\* the script is started again on the same output location
NewRun ==
    /\ pc \in {"done", "killed", "config_error"}
    /\ run < MaxRuns
    /\ run' = run + 1
    /\ pc' = "new"
    /\ prev_completed' = (pc = "done" /\ ~interrupted)
    /\ prev_clean' = (pc = "done" /\ ~interrupted /\ error_count = 0)
    /\ prev_target' = target_mkts
    /\ ProcessFresh
    /\ UNCHANGED <<config, disk, writers>>

\* Start reads df through LoadMkts(df) only: of the tables that load to the
\* same list of open markets, one with the most rows stands for all
OnePerList(tables) ==
    {CHOOSE df \in tables :
        /\ LoadMkts(df) = mkts
        /\ \A other \in tables :
               LoadMkts(other) = mkts => Len(other) <= Len(df)
     : mkts \in {LoadMkts(df) : df \in tables}}

RunTables == OnePerList(MetaTables)

Next ==
    \/ Construct
    \/ \E df \in RunTables : Start(df)
    \/ BeginCandidate
    \/ \E status \in Statuses, decodes \in BOOLEAN, n \in ItemCounts :
          Request(status, decodes, n)
    \/ NextPage
    \/ WriteOk
    \/ \E j \in 0..MaxCut : WriteFail(j)
    \/ \E j \in 0..MaxCut : Interrupt(j)
    \/ Finish
    \/ \E j \in 0..MaxCut : Kill(j)
    \/ NewRun

\* whole runs, one after another, on the same output location
Init == InitWith(RunKeys, RunMaxResults)

Spec == Init /\ [][Next]_vars

\* one run over one candidate row, with searches of several pages
OneRowTables == {df \in MetaTables : Len(df) <= 1}

SearchInit == InitWith(MaxKeys, SearchMaxResults)

SearchNext ==
    \/ Construct
    \/ \E df \in OneRowTables : Start(df)
    \/ BeginCandidate
    \/ \E status \in Statuses, decodes \in BOOLEAN, n \in ItemCounts :
          Request(status, decodes, n)
    \/ NextPage
    \/ WriteOk
    \/ \E j \in 0..MaxCut : WriteFail(j)
    \/ \E j \in 0..MaxCut : Interrupt(j)
    \/ Finish
    \/ \E j \in 0..MaxCut : Kill(j)

SearchSpec == SearchInit /\ [][SearchNext]_vars

\* google_search runs on by itself: a request in flight is answered (or
\* raises), and after a page the next one starts or the function returns
SearchStep ==
    \/ \E status \in Statuses, decodes \in BOOLEAN, n \in ItemCounts :
          Request(status, decodes, n)
    \/ NextPage

SearchFairSpec == SearchSpec /\ WF_vars(SearchStep)

\* runs over metadata of up to MaxList open markets, every search of one
\* page: the worklist of a run against an output that earlier runs wrote
ListTables ==
    UNION { { [i \in 1..k |-> MetaRow(<<f[i], TRUE, FALSE>>)] :
                f \in [1..k -> ListSlugs] } : k \in 0..MaxList }

\* the count in "skipping N already processed"
SkipCount(processed) == Cardinality(processed)

WorklistTables == OnePerList(ListTables)

WorklistInit == InitWith(RunKeys, {10})

WorklistNext ==
    \/ Construct
    \/ \E df \in WorklistTables : Start(df)
    \/ BeginCandidate
    \/ \E status \in {0, 200} : Request(status, TRUE, 4)
    \/ NextPage
    \/ WriteOk
    \/ WriteFail(0)
    \/ Interrupt(0)
    \/ Finish
    \/ Kill(0)
    \/ NewRun

WorklistSpec == WorklistInit /\ [][WorklistNext]_vars



\* ============================================================== claims

IsPrefix(s, t) == Len(s) <= Len(t) /\ SubSeq(t, 1, Len(s)) = s

\* run is past its initialisation (the loads and the filter)
InRun == pc \in {"loop", "request", "page_end", "write", "done"}

\* google_search is executing, or has just returned to search_event
InSearch == pc \in {"request", "page_end", "write"}

RowSlugs == {output_rows[i].slug : i \in 1..Len(output_rows)}

\* rows written by the current run
RowsOfThisRun == {i \in 1..Len(output_rows) : output_rows[i].timestamp = run}

\* identifiers that had a row when this run started
SlugsBeforeThisRun ==
    {output_rows[i].slug : i \in (1..Len(output_rows)) \ RowsOfThisRun}

WorklistSlugs(upto) ==
    {events_to_search[k][1] : k \in 1..upto}

\* the concatenation of the item lists of the accepted responses
RECURSIVE Flatten(_)
Flatten(acc) ==
    IF acc = <<>> THEN <<>>
    ELSE ItemsOf(acc[1][1], acc[1][2]) \o Flatten(Tail(acc))

C2_NoDuplicateWork ==
    /\ \A s \in Slugs : writers[s] <= 1
    /\ \A i, j \in 1..Len(output_rows) :
          output_rows[i].slug = output_rows[j].slug
          => output_rows[i].timestamp = output_rows[j].timestamp
    /\ InSearch => CurSlug \notin RowSlugs
    /\ pc = "loop" =>
          \A k \in idx..Len(events_to_search) :
             events_to_search[k][1] \notin RowSlugs

C2_Witness ==
    /\ run = 2 /\ pc = "write"
    /\ RowSlugs # {} /\ RowsOfThisRun = {}
    /\ Len(target_mkts) = 2 /\ Len(events_to_search) = 1

\* ---- C3
\* C3 as stated: after len(pool) consecutive quota responses on a page the
\* cursor is back at the credential the page started with and the same page
\* is requested again.
C3_WrapsAndRetriesPage ==
    (InSearch /\ Len(api_keys) > 0 /\ quota_run = Len(api_keys))
    => /\ current_key_index = page_start_index
       /\ pc = "request"
       /\ params.start = StartOffset(page)

\* C3 amended: after len(pool) consecutive quota responses on a page the
\* cursor is back at the credential the page started with, and the page is
\* not requested again: the quota responses have used up the len(pool)
\* attempts of the page.
C3_WrapsAndBudgetSpent ==
    (InSearch /\ Len(api_keys) > 0 /\ quota_run = Len(api_keys))
    => /\ current_key_index = page_start_index
       /\ params.key = api_keys[page_start_index + 1]
       /\ attempt = Len(api_keys)
       /\ pc \in {"page_end", "write"}

C3_Witness ==
    /\ Len(api_keys) = 2 /\ quota_run = 2
    /\ pc = "page_end" /\ page = 1 /\ page_start_index = 1
    /\ current_key_index = 1

\* ---- C4
\* C4: once every one of the len(pool) attempts of a page has failed with a
\* transport error, no later page is requested and the search returns the
\* items collected before that page.
C4_ExhaustionAbandonsSearch ==
    \A p \in abandoned :
       /\ \A st \in req_starts : st <= StartOffset(p)
       /\ InSearch => page <= p
       /\ pc = "write" =>
             \A i \in 1..Len(result.items) : result.items[i][1] < p

\* ---- C5
\* C5: when the accepted response of page k has fewer than 10 items the
\* search returns at once: no request for a later page, and the returned
\* items are the items collected through page k.
C5_EarlyTermination ==
    short_page # NoPage
    => /\ pc = "write"
       /\ \A st \in req_starts : st <= StartOffset(short_page)
       /\ accepted # <<>>
       /\ accepted[Len(accepted)][1] = short_page
       /\ result.items = Flatten(accepted)
       /\ \A i \in 1..Len(result.items) : result.items[i][1] <= short_page

C5_Witness ==
    /\ short_page = 2 /\ pc = "write"
    /\ max_results = 30
    /\ accepted = <<<<0, 10>>, <<1, 10>>, <<2, 4>>>>
    /\ Len(result.items) = 24
    /\ req_starts = {1, 11, 21}

\* ---- C6
\* the item rows of one identifier are adjacent; First(i) is where the rows
\* of the identifier of row i begin
FirstRowOf(i) ==
    CHOOSE f \in 1..i :
       /\ output_rows[f].slug = output_rows[i].slug
       /\ \A g \in 1..(f - 1) : output_rows[g].slug # output_rows[i].slug

\* item y comes after item x in upstream order: next of the same page, or
\* first of a later page
Follows(x, y) ==
    \/ y[1] = x[1] /\ y[2] = x[2] + 1
    \/ y[1] > x[1] /\ y[2] = 1

C6_ItemsInPageOrder ==
    /\ pc = "write" =>
          /\ result.items = Flatten(accepted)
          /\ \A k \in 1..(Len(accepted) - 1) : accepted[k][1] < accepted[k + 1][1]
    /\ \A i \in 1..Len(output_rows) :
          output_rows[i].item # EmptyField
          => /\ output_rows[i].rank = <<i - FirstRowOf(i) + 1>>
             /\ i > FirstRowOf(i)
                => Follows(output_rows[i - 1].item, output_rows[i].item)

C6_RowsCarryItemsInOrder ==
    (Len(verdicts') = Len(verdicts) + 1 /\ verdicts'[Len(verdicts')]
       /\ result.items # <<>>)
    => /\ Len(output_rows') = Len(output_rows) + Len(result.items)
       /\ \A k \in 1..Len(result.items) :
             /\ output_rows'[Len(output_rows) + k].item = result.items[k]
             /\ output_rows'[Len(output_rows) + k].rank = <<k>>

\* C6: the items returned by a search are the per-page item lists in
\* increasing page order, and the rows written for the candidate carry
\* them in that order with ranks 1..n.
C6_OrderPreservingPagination ==
    []C6_ItemsInPageOrder /\ [][C6_RowsCarryItemsInOrder]_vars

C6_Witness ==
    /\ pc = "done" /\ ~interrupted /\ verdicts = <<TRUE>>
    /\ Len(output_rows) = 24
    /\ output_rows[1].item = <<0, 1>> /\ output_rows[1].rank = <<1>>
    /\ output_rows[11].item = <<1, 1>>
    /\ output_rows[24].item = <<2, 4>> /\ output_rows[24].rank = <<24>>


\* ---- C7
\* C7 as stated: in every state of a run after its initialisation an
\* identifier is in processed_slugs iff the output has a row for it.
C7_ProcessedIffHasRow ==
    InRun => processed_slugs = RowSlugs

\* C7 amended: processed_slugs is the set of identifiers that have a row in
\* the output when the run is initialised; the run never adds to it, so in
\* every later state it holds exactly the identifiers whose rows were
\* written before this run, a subset of the identifiers that have a row.
C7_ProcessedIsSnapshot ==
    InRun => /\ processed_slugs = SlugsBeforeThisRun
             /\ processed_slugs \subseteq RowSlugs

C7_Witness ==
    /\ run = 2 /\ pc = "loop" /\ idx = 2
    /\ processed_slugs # {}
    /\ RowsOfThisRun # {}
    /\ processed_slugs # RowSlugs

\* ---- C8
\* the candidates of the worklist that search_event was called for
Started == IF pc = "loop" THEN idx - 1 ELSE idx

\* C8 as stated: a cancellation that arrives while a candidate is searched
\* or persisted lets that candidate finish: when the loop has stopped every
\* started candidate has its verdict and its rows.
C8_InFlightCandidateCompletes ==
    interrupted
    => /\ pc = "done"
       /\ Len(verdicts) = idx
       /\ success_count + error_count = idx
       /\ events_to_search[idx][1] \in RowSlugs

C8_StoppedAtOnce ==
    interrupted
    => /\ pc = "done"
       /\ raised = "interrupt"
       /\ idx <= Len(events_to_search)
       /\ Len(verdicts) = idx - 1
       /\ success_count + error_count = idx - 1
       /\ \A i \in RowsOfThisRun : output_rows[i].slug \in WorklistSlugs(idx)
       /\ \A k \in 1..(idx - 1) :
             verdicts[k] => events_to_search[k][1] \in RowSlugs

C8_InterruptStep ==
    (~interrupted /\ interrupted')
    => /\ InSearch
       /\ pc' = "done"
       /\ IsPrefix(output_rows, output_rows')
       /\ \A i \in (Len(output_rows) + 1)..Len(output_rows') :
             output_rows'[i].slug = CurSlug
       /\ pc # "write" => output_rows' = output_rows
       /\ UNCHANGED <<idx, success_count, error_count, verdicts>>

\* C8 amended: a cancellation that arrives while a candidate is searched or
\* persisted stops the run at once: the candidate in flight is abandoned
\* where it is (no further request, no further row, counted neither as
\* succeeded nor as failed), no later candidate is started, and the rows of
\* the candidates processed before stay in the output.
C8_CancellationAbortsInFlight ==
    []C8_StoppedAtOnce /\ [][C8_InterruptStep]_vars

C8_Witness ==
    /\ interrupted /\ pc = "done"
    /\ Len(events_to_search) = 2 /\ idx = 2
    /\ verdicts = <<TRUE>>
    /\ events_to_search[1][1] \in RowSlugs
    /\ events_to_search[2][1] \notin RowSlugs

\* ---- C9
NumFailed == Cardinality({k \in 1..Len(verdicts) : ~verdicts[k]})

C9_EveryCandidateCountedOnce ==
    /\ InRun => /\ Len(verdicts) = success_count + error_count
                /\ error_count = NumFailed
    /\ pc \in {"loop", "request", "page_end", "write"}
          => Len(verdicts) = Started - (IF pc = "loop" THEN 0 ELSE 1)
    /\ (pc = "done" /\ ~interrupted)
          => success_count + error_count = Len(events_to_search)

C9_FailureStep ==
    (Len(verdicts') = Len(verdicts) + 1 /\ ~verdicts'[Len(verdicts')])
    => /\ error_count' = error_count + 1
       /\ success_count' = success_count
       /\ IsPrefix(output_rows, output_rows')
       /\ idx' = idx + 1
       /\ pc' = "loop"

\* C9: a candidate whose search or append raises is counted as failed once,
\* earlier rows are untouched, the run goes on with the next candidate, and
\* a run that is not cancelled ends with succeeded + failed = worklist size.
C9_FailureIsolation ==
    []C9_EveryCandidateCountedOnce /\ [][C9_FailureStep]_vars

C9_Witness ==
    /\ pc = "done" /\ ~interrupted
    /\ Len(events_to_search) = 2
    /\ verdicts = <<FALSE, TRUE>>
    /\ error_count = 1 /\ success_count = 1

\* ---- C10
C10_NoExceptionLeavesSearch ==
    /\ raised # "search"
    /\ pc = "write" => result = Outcome(search_terms, total_results, all_items)

C10_RequestStep ==
    pc = "request" => pc' \in {"request", "page_end", "write", "done", "killed"}

\* C10: whatever the upstream answers (success, quota response, transport
\* or HTTP error) google_search returns an outcome to search_event and no
\* exception leaves it.
C10_SearchNeverRaises ==
    []C10_NoExceptionLeavesSearch /\ [][C10_RequestStep]_vars

C10_Witness ==
    /\ pc = "write" /\ Len(api_keys) = 2
    /\ accepted = <<>> /\ result.items = <<>>
    /\ req_starts = {1, 11}
    /\ n_transport = 1 /\ quota_run = 1

\* ---- C11
\* C11: a search for max_results only requests pages 0 .. max_results div 10
\* - 1, accepts at most one response per page, and returns at most
\* 10 * (max_results div 10) <= max_results items; with max_results below 10
\* it issues no request and returns no items.
C11_ResultCap ==
    InSearch =>
        /\ req_starts \subseteq
               {p * 10 + 1 : p \in 0..((max_results \div 10) - 1)}
        /\ pc \in {"request", "page_end"} =>
               page \in 0..((max_results \div 10) - 1)
        /\ \A i \in 1..Len(accepted) :
               /\ accepted[i][1] \in 0..((max_results \div 10) - 1)
               /\ accepted[i][2] <= 10
               /\ \A j \in 1..Len(accepted) :
                      i < j => accepted[i][1] < accepted[j][1]
        /\ Len(all_items) <= 10 * Len(accepted)
        /\ Len(all_items) <= 10 * (max_results \div 10)
        /\ 10 * (max_results \div 10) <= max_results
        /\ pc = "write" => result.items = all_items
        /\ max_results < 10 =>
               /\ pc = "write"
               /\ req_starts = {}
               /\ accepted = <<>>
               /\ result.items = <<>>

\* every page of a 30-result search was full: the cap is reached exactly
C11_Witness ==
    /\ pc = "write"
    /\ max_results = 30
    /\ req_starts = {1, 11, 21}
    /\ Len(accepted) = 3
    /\ Len(result.items) = 30

\* ---- C12
\* the place of an identifier in the candidate list of this run
PosInTarget(s) == CHOOSE m \in 1..Len(target_mkts) : target_mkts[m][1] = s

\* C12: the worklist of a run is the candidate list without the candidates
\* that had a row in the output when the run started, in candidate-list
\* order; the run visits it in that order, and when it has gone through it
\* every worklist entry has been handled once, the successes are counted and
\* the reported skip count is the number of identifiers found in the output.
C12_WorklistFiltering ==
    InRun =>
        /\ \A k \in 1..Len(events_to_search) :
               /\ \E m \in 1..Len(target_mkts) :
                      target_mkts[m] = events_to_search[k]
               /\ events_to_search[k][1] \notin SlugsBeforeThisRun
        /\ \A m \in 1..Len(target_mkts) :
               target_mkts[m][1] \notin SlugsBeforeThisRun =>
                   \E k \in 1..Len(events_to_search) :
                       events_to_search[k] = target_mkts[m]
        /\ \A k, l \in 1..Len(events_to_search) :
               k < l => PosInTarget(events_to_search[k][1])
                            < PosInTarget(events_to_search[l][1])
        /\ Len(verdicts) = idx - 1
        /\ idx <= Len(events_to_search) + 1
        /\ \A i \in RowsOfThisRun :
               /\ output_rows[i].slug \in WorklistSlugs(Len(events_to_search))
               /\ \A j \in RowsOfThisRun :
                      i < j => PosInTarget(output_rows[i].slug)
                                   <= PosInTarget(output_rows[j].slug)
        /\ SkipCount(processed_slugs) = Cardinality(SlugsBeforeThisRun)
        /\ (pc = "done" /\ ~interrupted) =>
               /\ Len(verdicts) = Len(events_to_search)
               /\ success_count =
                      Cardinality({k \in 1..Len(verdicts) : verdicts[k]})

\* candidates a, b, c against an output that has rows for a only: the run
\* went through b then c, 2 succeeded, skip count 1
C12_Witness ==
    /\ pc = "done"
    /\ ~interrupted
    /\ [m \in 1..Len(target_mkts) |-> target_mkts[m][1]] = <<"a", "b", "c">>
    /\ SlugsBeforeThisRun = {"a"}
    /\ [k \in 1..Len(events_to_search) |-> events_to_search[k][1]]
           = <<"b", "c">>
    /\ verdicts = <<TRUE, TRUE>>
    /\ success_count = 2
    /\ error_count = 0
    /\ SkipCount(processed_slugs) = 1
    /\ \E i, j \in RowsOfThisRun :
           i < j /\ output_rows[i].slug = "b" /\ output_rows[j].slug = "c"

\* ---- C13
\* the rows a step appended to the output
Appended == SubSeq(output_rows', Len(output_rows) + 1, Len(output_rows'))

C13_RowsOfHandledCandidate ==
    (pc \in {"loop", "done"} /\ verdicts = <<TRUE>>) =>
        /\ Len(output_rows) >= 1
        /\ output_rows[1].item = EmptyField =>
               /\ Len(output_rows) = 1
               /\ output_rows[1].rank = EmptyField
        /\ output_rows[1].item # EmptyField =>
               \A i \in 1..Len(output_rows) :
                   /\ output_rows[i].item # EmptyField
                   /\ output_rows[i].rank # EmptyField

C13_WriteStep ==
    (pc = "write" /\ verdicts' = Append(verdicts, TRUE)) =>
        /\ IsPrefix(output_rows, output_rows')
        /\ \A i \in 1..Len(Appended) : Appended[i].slug = CurSlug
        /\ IF result.items = <<>>
           THEN /\ Len(Appended) = 1
                /\ Appended[1].item = EmptyField
                /\ Appended[1].rank = EmptyField
           ELSE /\ Len(Appended) = Len(result.items)
                /\ \A i \in 1..Len(Appended) :
                       Appended[i].item = result.items[i]

\* C13: search_event appends exactly one row, with empty item fields and an
\* empty rank, for a candidate whose search outcome has no items, and exactly
\* n rows for a candidate whose outcome has n >= 1 items.
C13_ZeroResultRow ==
    []C13_RowsOfHandledCandidate /\ [][C13_WriteStep]_vars

\* a 200 response without items was accepted and the one empty row written
C13_Witness ==
    /\ pc \in {"loop", "done"}
    /\ verdicts = <<TRUE>>
    /\ key_usage[1] = 1
    /\ Len(output_rows) = 1
    /\ output_rows[1].item = EmptyField
    /\ output_rows[1].rank = EmptyField

\* ---- C14
RECURSIVE SumOf(_)
SumOf(usage) == IF usage = <<>> THEN 0 ELSE usage[1] + SumOf(Tail(usage))

\* the counters add up to the responses that were neither a quota response
\* nor an error response
C14_CountersAddUp == SumOf(key_usage) = n_served

\* a request that changes a counter got such a response, and adds one to the
\* counter of the key its params carried; a request that got any other
\* answer, and a rotation, change no counter
C14_UsageStep ==
    (pc = "request" /\ pc' \in {"request", "page_end", "write", "loop"}) =>
        /\ key_usage' # key_usage =>
               /\ n_served' = n_served + 1
               /\ \E k \in 1..Len(api_keys) :
                      /\ api_keys[k] = params.key
                      /\ key_usage' = [key_usage EXCEPT ![k] = @ + 1]
        /\ n_served' = n_served => key_usage' = key_usage
        /\ current_key_index' # current_key_index => key_usage' = key_usage

\* C14: a usage counter goes up only on a response that is neither a quota
\* response nor an error response, it is the counter of the key sent in
\* that request, and the counters add up to the number of those responses.
C14_UsageAccounting == []C14_CountersAddUp /\ [][C14_UsageStep]_vars

\* the first key served page 0, a quota response on page 1 rotated to the
\* second key, which served page 1
C14_Witness ==
    /\ InSearch
    /\ key_usage = <<1, 1>>
    /\ n_served = 2
    /\ current_key_index = 1
    /\ Len(accepted) = 2

\* ---- C15
C15_MetadataOfPageZero ==
    InSearch =>
        /\ IF \E i \in 1..Len(accepted) : accepted[i][1] = 0
           THEN /\ search_terms =
                       [src |-> "response", page |-> 0, text |-> CurTitle]
                /\ total_results = [src |-> "response", page |-> 0]
           ELSE /\ search_terms =
                       [src |-> "query", page |-> NoPage, text |-> CurTitle]
                /\ total_results = [src |-> "default", page |-> NoPage]
        /\ pc = "write" =>
               /\ result.searchTerms = search_terms
               /\ result.totalResults = total_results

C15_LaterPageStep ==
    (pc = "request" /\ page > 0 /\ InSearch') =>
        /\ search_terms' = search_terms
        /\ total_results' = total_results

\* C15: the searchTerms and totalResults of an outcome are those of the
\* accepted response for page 0; a response for a later page never changes
\* them, and without an accepted response for page 0 they are the query text
\* and the default '0', whatever later pages returned.
C15_FirstPageMetadataOnly ==
    []C15_MetadataOfPageZero /\ [][C15_LaterPageStep]_vars

\* page 0 failed on every attempt, a later page was accepted: the outcome
\* has items and the default metadata
C15_Witness ==
    /\ pc = "write"
    /\ accepted # <<>>
    /\ accepted[1][1] > 0
    /\ result.items # <<>>
    /\ result.searchTerms = QueryTerms(CurTitle)
    /\ result.totalResults = DefaultTotal

\* ---- C16
\* a request in flight carries the current key and the offset of its page
C16_RequestParams ==
    pc = "request" =>
        /\ params.key = api_keys[current_key_index + 1]
        /\ params.start = page * 10 + 1

\* a request that ended in a transport error leaves the cursor, the page and
\* the params as they were, and the page is tried again while an attempt is
\* left
C16_TransportStep ==
    (pc = "request" /\ n_transport' = n_transport + 1) =>
        /\ current_key_index' = current_key_index
        /\ page' = page
        /\ params' = params
        /\ attempt' = attempt + 1
        /\ pc' = IF attempt' < Len(api_keys) THEN "request" ELSE "page_end"

\* within a process the cursor moves only on a quota response, by one
\* modulo the pool size, and the params follow it on the same page
C16_CursorStep ==
    (InRun /\ InRun' /\ current_key_index' # current_key_index) =>
        /\ pc = "request"
        /\ quota_run' = quota_run + 1
        /\ n_transport' = n_transport
        /\ current_key_index' = (current_key_index + 1) % Len(api_keys)
        /\ page' = page
        /\ params'.start = params.start
        /\ params'.key = api_keys[current_key_index' + 1]

\* C16: a transport error on a page changes neither the cursor nor the
\* params, so the next request for that page carries the same start offset
\* and the same key; the cursor changes only on a quota response, by +1
\* modulo the pool size.
C16_TransportRetryKeepsPageAndKey ==
    /\ []C16_RequestParams
    /\ [][C16_TransportStep]_vars
    /\ [][C16_CursorStep]_vars

\* page 0 rotated to the second key; the first request of page 1 ended in a
\* transport error and the page is about to be requested again
C16_Witness ==
    /\ pc = "request"
    /\ page = 1
    /\ attempt = 1
    /\ n_transport = 1
    /\ current_key_index = 1
    /\ params = [key |-> api_keys[2], start |-> 11]

\* ---- C17
\* a constructed scraper has a key pool, a cursor inside it and one usage
\* counter per key; with an empty pool __init__ raises
C17_CursorInPool ==
    /\ api_keys = <<>> => pc \in {"new", "config_error"}
    /\ pc = "config_error" => api_keys = <<>>
    /\ pc \in {"ready", "loop", "request", "page_end", "write", "done"} =>
           /\ Len(api_keys) >= 1
           /\ current_key_index \in 0..(Len(api_keys) - 1)
           /\ Len(key_usage) = Len(api_keys)

\* rotate_api_key moves the cursor to the next key, from the last to the
\* first
C17_RotateStep ==
    (pc = "request" /\ quota_run' = quota_run + 1) =>
        current_key_index' = IF current_key_index = Len(api_keys) - 1
                             THEN 0
                             ELSE current_key_index + 1

\* C17: a scraper cannot be constructed with an empty key pool, the cursor
\* of a constructed scraper is always in 0 .. len(api_keys) - 1, and a
\* rotation sets it to (cursor + 1) mod len(api_keys).
C17_CursorValidity == []C17_CursorInPool /\ [][C17_RotateStep]_vars

\* two quota responses on page 0 of a pool of two: the cursor went from the
\* last key back to the first
C17_Witness ==
    /\ pc = "page_end"
    /\ page = 0
    /\ Len(api_keys) = 2
    /\ quota_run = 2
    /\ n_requests = 2
    /\ current_key_index = 0

\* ---- C18
\* an output that exists has the header row; no row exists without it
C18_OutputHasHeader ==
    /\ output_exists => output_header = GOOGLE_SEARCH_COLUMNS
    /\ ~output_exists => output_header = <<>> /\ output_rows = <<>>

\* a step on an existing output keeps the header and the rows written so
\* far, in place, and only adds rows after them
C18_AppendStep ==
    output_exists =>
        /\ output_exists'
        /\ output_header' = output_header
        /\ IsPrefix(output_rows, output_rows')

\* the one write that is not an append: load_processed_slugs creates the
\* output with the header row when there is none
C18_SeedStep ==
    (~output_exists /\ disk' # disk) =>
        /\ pc = "ready"
        /\ output_exists'
        /\ output_header' = GOOGLE_SEARCH_COLUMNS
        /\ output_rows' = <<>>

\* C18: once the output exists every step leaves the rows written so far as
\* a prefix of the rows after it; the only other write is the creation of
\* the output with its header row when none exists at initialisation.
C18_AppendOnlyOutput ==
    /\ []C18_OutputHasHeader
    /\ [][C18_AppendStep]_vars
    /\ [][C18_SeedStep]_vars

\* a second run has appended its rows after the rows of the first
C18_Witness ==
    /\ run = 2
    /\ InRun
    /\ RowsOfThisRun # {}
    /\ RowsOfThisRun # 1..Len(output_rows)
    /\ \A i \in 1..Len(output_rows) : \A j \in RowsOfThisRun :
           output_rows[i].timestamp = 1 => i < j

\* ---- C19
\* how far a search is: pages done, then attempts used on the current page
C19_Measure ==
    IF pc \in {"request", "page_end"}
    THEN page * (Len(api_keys) + 2)
             + (IF pc = "page_end" THEN Len(api_keys) + 1 ELSE attempt)
    ELSE (max_results \div 10) * (Len(api_keys) + 2)

C19_RequestBound ==
    InSearch =>
        /\ n_requests <= (max_results \div 10) * Len(api_keys)
        /\ attempt <= Len(api_keys)
        /\ pc \in {"request", "page_end"} =>
               n_requests <= (page + 1) * Len(api_keys)
        /\ pc = "request" =>
               n_requests <= page * Len(api_keys) + attempt
        /\ C19_Measure <= (max_results \div 10) * (Len(api_keys) + 2)

\* every answer, quota response and transport error included, uses up an
\* attempt or ends the page, and every step of a search takes it further
C19_SearchStep ==
    (InSearch /\ InSearch') =>
        /\ C19_Measure' > C19_Measure
        /\ n_requests' \in {n_requests, n_requests + 1}
        /\ (n_requests' = n_requests + 1 /\ pc' = "request") =>
               attempt' = attempt + 1

\* C19: whatever the upstream answers, one search issues at most
\* (max_results div 10) * len(api_keys) requests and then returns; quota
\* responses and transport errors use up the same attempts of a page.
C19_BoundedSearch ==
    /\ []C19_RequestBound
    /\ [][C19_SearchStep]_vars
    /\ (pc \in {"request", "page_end"}) ~> (pc \notin {"request", "page_end"})

\* three pages with two keys, no request answered: the last page got a
\* transport error and a quota response, and the search returned after six
\* requests
C19_Witness ==
    /\ pc = "write"
    /\ max_results = 30
    /\ Len(api_keys) = 2
    /\ n_requests = 6
    /\ accepted = <<>>
    /\ n_transport = 1
    /\ quota_run = 1
    /\ result.items = <<>>

\* ---- C20
\* the search of the current candidate issued requests and none was answered
\* with a response whose items were kept
AllRequestsFailed == n_requests > 0 /\ accepted = <<>>

\* rows that a search without any accepted response left behind: no item,
\* the query text and the default total (every search of this configuration
\* issues requests)
FailedFetchRows ==
    {i \in 1..Len(output_rows) :
        /\ max_results >= 10
        /\ output_rows[i].item = EmptyField
        /\ output_rows[i].searchTerms.src = "query"
        /\ output_rows[i].totalResults.src = "default"}

\* such a search went through every attempt of every page and returns the
\* empty outcome instead of raising
C20_FailedSearchReturnsEmpty ==
    /\ (pc = "write" /\ AllRequestsFailed) =>
           /\ n_requests = (max_results \div 10) * Len(api_keys)
           /\ result.items = <<>>
           /\ result.searchTerms.src = "query"
           /\ result.totalResults.src = "default"
    /\ InRun => raised # "search"

\* its row stays the only row of the identifier, and a later run that has
\* the identifier among its candidates leaves it out of its worklist
C20_FailedFetchIsFinal ==
    \A i \in FailedFetchRows :
        /\ \A j \in 1..Len(output_rows) :
               j # i => output_rows[j].slug # output_rows[i].slug
        /\ (InRun /\ output_rows[i].timestamp < run) =>
               /\ output_rows[i].slug \in processed_slugs
               /\ output_rows[i].slug
                      \notin WorklistSlugs(Len(events_to_search))

\* search_event goes on to append the one empty row and returns True, which
\* run counts as a success
C20_WriteStep ==
    (pc = "write" /\ AllRequestsFailed /\ pc' = "loop"
        /\ output_rows' # output_rows) =>
        /\ Len(Appended) = 1
        /\ IsPrefix(output_rows, output_rows')
        /\ Appended[1].slug = CurSlug
        /\ Appended[1].item = EmptyField
        /\ Appended[1].rank = EmptyField
        /\ verdicts' = Append(verdicts, TRUE)
        /\ success_count' = success_count + 1
        /\ error_count' = error_count

\* C20: a candidate whose every request failed still gets exactly one row
\* without item appended and is counted as succeeded; every later run finds
\* the identifier in the output and skips it, so it never gets an item row.
C20_FailedFetchRecorded ==
    /\ []C20_FailedSearchReturnsEmpty
    /\ []C20_FailedFetchIsFinal
    /\ [][C20_WriteStep]_vars

\* the first run got no answer for a, wrote its empty row and counted it;
\* the second run has a among its candidates and does not search it
C20_Witness ==
    /\ run = 2
    /\ InRun
    /\ prev_completed
    /\ prev_clean
    /\ \E i \in FailedFetchRows :
           /\ output_rows[i].timestamp = 1
           /\ output_rows[i].slug \in
                  {target_mkts[m][1] : m \in 1..Len(target_mkts)}
           /\ output_rows[i].slug \notin WorklistSlugs(Len(events_to_search))

====
